---------------------------- MODULE Spec2Model ----------------------------
(***************************************************************************)
(* Model of src/app.py: the Streamlit console of the Astrology Booklet     *)
(* backend.  One script run per pressed button: the run builds at most one *)
(* HTTP request (make_request), the network answers with a response or an  *)
(* exception of the requests library, and the run renders Streamlit        *)
(* elements (st.error, st.json, ...).                                      *)
(*                                                                         *)
(* Conventions.  Python's None is the empty tuple and an object x that may *)
(* be None is <<x>>.  A rendered f-string is the tuple of its parts (the   *)
(* literal pieces and the formatted values), so that "the message contains *)
(* the status code" is a statement about the parts.  The emoji of the      *)
(* source's literals are left out of the literals (the module is ASCII).   *)
(***************************************************************************)
EXTENDS Integers, Sequences, FiniteSets, TLC

VARIABLES
    BASE_URL,      \* app.py:29  the sidebar's "API Base URL" text input
    token_input,   \* app.py:34  the sidebar's "Bearer Token" text input
    button,        \* label of the button pressed in the last script run
    widgets,       \* values of the widgets the last run read
    net,           \* requests handed to the requests library by the last run
    wire,          \* what the network answered to each of them
    resp,          \* value of `resp` after make_request (None or <<response>>)
    data,          \* value returned by show_response (None or <<body text>>)
    st,            \* Streamlit elements rendered by the last run's handler
    fault,         \* exception that escaped the handler ("none" if none did)
    call           \* pending direct call of a helper (the helper specifications)

vars == <<BASE_URL, token_input, button, widgets, net, wire, resp, data, st, fault, call>>

None == <<>>

-----------------------------------------------------------------------------
(* Bounds of the model *)

\* user ids run over 1..MaxUserId (the number_input has min_value=1, no maximum)
MaxUserId == 2

-----------------------------------------------------------------------------
(* Python / library primitives used by app.py *)

\* str.upper() on one ASCII character
UpperChar(c) ==
    CASE c = "a" -> "A" [] c = "b" -> "B" [] c = "c" -> "C" [] c = "d" -> "D"
      [] c = "e" -> "E" [] c = "f" -> "F" [] c = "g" -> "G" [] c = "h" -> "H"
      [] c = "i" -> "I" [] c = "j" -> "J" [] c = "k" -> "K" [] c = "l" -> "L"
      [] c = "m" -> "M" [] c = "n" -> "N" [] c = "o" -> "O" [] c = "p" -> "P"
      [] c = "q" -> "Q" [] c = "r" -> "R" [] c = "s" -> "S" [] c = "t" -> "T"
      [] c = "u" -> "U" [] c = "v" -> "V" [] c = "w" -> "W" [] c = "x" -> "X"
      [] c = "y" -> "Y" [] c = "z" -> "Z" [] OTHER -> c

\* method.upper(): a method string is the tuple of its characters
upper(method) == [i \in 1..Len(method) |-> UpperChar(method[i])]

\* the string a tuple of characters spells (for rendering {method})
RECURSIVE Spell(_)
Spell(chars) == IF chars = <<>> THEN "" ELSE Head(chars) \o Spell(Tail(chars))

M_GET    == <<"G", "E", "T">>
M_POST   == <<"P", "O", "S", "T">>
M_PUT    == <<"P", "U", "T">>
M_DELETE == <<"D", "E", "L", "E", "T", "E">>

\* strftime's zero-padded decimal fields (%Y: 4 digits, %m %d %H %M: 2 digits)
RECURSIVE ZeroPad(_, _)
ZeroPad(n, width) ==
    IF width <= 1 \/ n >= 10 ^ (width - 1)
    THEN ToString(n)
    ELSE "0" \o ZeroPad(n, width - 1)

\* birthdate.strftime('%Y-%m-%d')
strftime_date(d) == ZeroPad(d.year, 4) \o "-" \o ZeroPad(d.month, 2) \o "-" \o ZeroPad(d.day, 2)

\* birthtime.strftime('%H:%M')
strftime_time(t) == ZeroPad(t.hour, 2) \o ":" \o ZeroPad(t.minute, 2)

EmptyDict == [k \in {} |-> ""]

-----------------------------------------------------------------------------
(* json: resp.json() on the body texts of the model.  A parsed value is a  *)
(* record: its Python type, len() where it has one, its number (bool is    *)
(* 0/1), str() of it, and for a dict the JSON text of each member.         *)

JDict(items, repr) == [ok |-> TRUE, type |-> "dict", len |-> Cardinality(DOMAIN items),
                       num |-> 0, str |-> repr, items |-> items]
JList(n, repr)     == [ok |-> TRUE, type |-> "list", len |-> n,
                       num |-> 0, str |-> repr, items |-> EmptyDict]
JStr(s)            == [ok |-> TRUE, type |-> "str", len |-> Len(s),
                       num |-> 0, str |-> s, items |-> EmptyDict]
JInt(n)            == [ok |-> TRUE, type |-> "int", len |-> 0,
                       num |-> n, str |-> ToString(n), items |-> EmptyDict]
JNull              == [ok |-> TRUE, type |-> "NoneType", len |-> 0,
                       num |-> 0, str |-> "None", items |-> EmptyDict]
\* json.JSONDecodeError (a ValueError, so an Exception)
JError             == [ok |-> FALSE, type |-> "JSONDecodeError", len |-> 0,
                       num |-> 0, str |-> "", items |-> EmptyDict]

B_NotFound   == "{\"detail\": \"User not found\"}"
B_Validation == "{\"detail\": [{\"msg\": \"field required\"}]}"
B_DetailNull == "{\"detail\": null}"
B_NoDetail   == "{\"error\": \"boom\"}"
B_Internal   == "internal error"
B_Empty      == ""
B_EmptyList  == "[]"
B_EmptyDict  == "{}"
B_ErrList    == "[\"bad gateway\"]"
B_Users      == "[{\"id\": 1}, {\"id\": 2}]"
B_User       == "{\"id\": 1, \"first_name\": \"Ana\"}"
B_Five       == "5"
B_Zero       == "0"
B_JsonNull   == "null"
B_String     == "\"ok\""
B_BigThree   == "{\"Sun\": {\"sign\": \"Aries\", \"degree\": 12}, \"Moon\": {\"sign\": \"Leo\"}, \"Asc\": null}"
B_SunString  == "{\"Sun\": \"Aries\"}"
B_Pdf        == "%PDF-1.4"

json_loads(text) ==
    CASE text = B_NotFound   -> JDict("detail" :> "\"User not found\"", "{'detail': 'User not found'}")
      [] text = B_Validation -> JDict("detail" :> "[{\"msg\": \"field required\"}]",
                                      "{'detail': [{'msg': 'field required'}]}")
      [] text = B_DetailNull -> JDict("detail" :> "null", "{'detail': None}")
      [] text = B_NoDetail   -> JDict("error" :> "\"boom\"", "{'error': 'boom'}")
      [] text = B_EmptyList  -> JList(0, "[]")
      [] text = B_EmptyDict  -> JDict(EmptyDict, "{}")
      [] text = B_ErrList    -> JList(1, "['bad gateway']")
      [] text = B_Users      -> JList(2, "[{'id': 1}, {'id': 2}]")
      [] text = B_User       -> JDict(("id" :> "1") @@ ("first_name" :> "\"Ana\""),
                                      "{'id': 1, 'first_name': 'Ana'}")
      [] text = B_Five       -> JInt(5)
      [] text = B_Zero       -> JInt(0)
      [] text = B_JsonNull   -> JNull
      [] text = B_String     -> JStr("ok")
      [] text = B_BigThree   -> JDict(("Sun" :> "{\"sign\": \"Aries\", \"degree\": 12}")
                                      @@ ("Moon" :> "{\"sign\": \"Leo\"}") @@ ("Asc" :> "null"),
                                      "{'Sun': {'sign': 'Aries', 'degree': 12}, 'Moon': {'sign': 'Leo'}, 'Asc': None}")
      [] text = B_SunString  -> JDict("Sun" :> "\"Aries\"", "{'Sun': 'Aries'}")
      [] text = "{\"sign\": \"Aries\", \"degree\": 12}"
                             -> JDict(("sign" :> "\"Aries\"") @@ ("degree" :> "12"),
                                      "{'sign': 'Aries', 'degree': 12}")
      [] text = "{\"sign\": \"Leo\"}" -> JDict("sign" :> "\"Leo\"", "{'sign': 'Leo'}")
      [] text = "[{\"msg\": \"field required\"}]" -> JList(1, "[{'msg': 'field required'}]")
      [] text = "\"User not found\"" -> JStr("User not found")
      [] text = "\"boom\""   -> JStr("boom")
      [] text = "\"Aries\""  -> JStr("Aries")
      [] text = "\"Leo\""    -> JStr("Leo")
      [] text = "\"Ana\""    -> JStr("Ana")
      [] text = "1"          -> JInt(1)
      [] text = "12"         -> JInt(12)
      [] OTHER               -> JError

\* bool(x) of a parsed value: containers and strings by len, numbers by value
Truthy(v) ==
    CASE v.type \in {"dict", "list", "str"} -> v.len > 0
      [] v.type \in {"int", "bool"}         -> v.num # 0
      [] OTHER                              -> FALSE

\* whether len(x) is defined (otherwise len raises TypeError)
HasLen(v) == v.type \in {"dict", "list", "str"}

\* whether x.get exists (otherwise x.get raises AttributeError)
HasGet(v) == v.type = "dict"

\* d.get(key) of a dict: the member, or None
DictGet(v, key) == IF key \in DOMAIN v.items THEN json_loads(v.items[key]) ELSE JNull

\* str(d.get(key, default)) of a dict
DictGetStr(v, key, default) ==
    IF key \in DOMAIN v.items THEN json_loads(v.items[key]).str ELSE default

-----------------------------------------------------------------------------
(* requests: responses and exceptions *)

Response(status_code, text) == [status_code |-> status_code, text |-> text]

\* requests.Response.__bool__ is Response.ok: raise_for_status() does not raise,
\* which it does for 400 <= status_code < 600; None is false
Bool(r) == r # None /\ ~(400 <= r[1].status_code /\ r[1].status_code < 600)

\* isinstance(e, cls) for the exception classes the except clauses name
IsInstance(e, cls) ==
    CASE cls = "ConnectionError"  -> e \in {"ConnectionError", "ConnectTimeout"}
      [] cls = "Timeout"          -> e \in {"ConnectTimeout", "ReadTimeout"}
      [] cls = "RequestException" -> e \in {"ConnectionError", "ConnectTimeout",
                                            "ReadTimeout", "TooManyRedirects"}
      [] OTHER                    -> FALSE

\* str(e)
ExcStr(e) ==
    CASE e = "ConnectionError"  -> "Connection refused"
      [] e = "ConnectTimeout"   -> "Connection to host timed out"
      [] e = "ReadTimeout"      -> "Read timed out"
      [] e = "TooManyRedirects" -> "Exceeded 30 redirects"
      [] OTHER                  -> e

\* an answer of the network: a response (exc = "none") or a raised exception
Answer(status_code, text) == [exc |-> "none", status_code |-> status_code, text |-> text]
Raise(e) == [exc |-> e, status_code |-> 0, text |-> ""]

\* a Streamlit element: st.<kind>(f-string parts)
El(kind, parts) == [kind |-> kind, parts |-> parts]

-----------------------------------------------------------------------------
(* Helpers of app.py *)

\* get_headers with the require_auth test dropped
get_headers_always(require_auth) ==
    LET headers == ("Accept" :> "application/json") @@ ("Content-Type" :> "application/json")
    IN  IF token_input # ""
        THEN headers @@ ("Authorization" :> ("Bearer " \o token_input))
        ELSE headers

\* app.py:50-58
get_headers(require_auth) ==
    LET headers == ("Accept" :> "application/json") @@ ("Content-Type" :> "application/json")
    IN  IF require_auth /\ token_input # ""
        THEN headers @@ ("Authorization" :> ("Bearer " \o token_input))
        ELSE headers

\* show_error with error_data.get replaced by a lookup that never raises
show_error_unchecked(r) ==
    LET error_data == json_loads(r.text)
    IN  IF error_data.ok
        THEN [st   |-> <<El("error", <<"Error ", ToString(r.status_code), ": ",
                                       DictGetStr(error_data, "detail", "Unknown error")>>)>>,
              data |-> None]
        ELSE [st   |-> <<El("error", <<"Error ", ToString(r.status_code), ": ", r.text>>)>>,
              data |-> None]

\* app.py:72-78: the branch of show_response for status_code >= 400
show_error(r) ==
    LET error_data == json_loads(r.text)
    IN  IF error_data.ok /\ HasGet(error_data)
        THEN [st   |-> <<El("error", <<"Error ", ToString(r.status_code), ": ",
                                       DictGetStr(error_data, "detail", "Unknown error")>>)>>,
              data |-> None]
        ELSE [st   |-> <<El("error", <<"Error ", ToString(r.status_code), ": ", r.text>>)>>,
              data |-> None]

\* app.py:62-71: the branch of show_response for status_code < 400
show_success(r, success_message) ==
    LET parsed == json_loads(r.text)
        shown  == IF success_message # None /\ success_message[1] # ""
                  THEN <<El("success", success_message)>>
                  ELSE <<>>
    IN  IF parsed.ok
        THEN [st   |-> shown \o <<El("json", <<r.text>>)>>,
              data |-> IF parsed.type = "NoneType" THEN None ELSE <<r.text>>]
        ELSE [st   |-> shown \o <<El("text_area", <<"Raw response (text)", r.text>>)>>,
              data |-> None]

\* app.py:60-78.  The result is the elements rendered and the value returned:
\* None, or <<text>> for the value parsed from text.
show_response(r, success_message) ==
    IF r.status_code < 400 THEN show_success(r, success_message) ELSE show_error(r)

\* app.py:95-103: the except clauses, tried in source order
except_clauses(e) ==
    IF IsInstance(e, "ConnectionError")
    THEN [caught |-> TRUE,
          st |-> <<El("error", <<"Connection failed. Is the backend running at ", BASE_URL, "?">>)>>]
    ELSE IF IsInstance(e, "Timeout")
    THEN [caught |-> TRUE, st |-> <<El("error", <<"Request timed out">>)>>]
    ELSE IF IsInstance(e, "RequestException")
    THEN [caught |-> TRUE, st |-> <<El("error", <<"Request failed: ", ExcStr(e)>>)>>]
    ELSE [caught |-> FALSE, st |-> <<>>]

\* dispatch without method.upper()
dispatch_case_sensitive(method) ==
    IF method = M_GET THEN <<"GET">>
    ELSE IF method = M_POST THEN <<"POST">>
    ELSE IF method = M_PUT THEN <<"PUT">>
    ELSE IF method = M_DELETE THEN <<"DELETE">>
    ELSE None

\* app.py:83-90: the requests function the method selects, None for the else branch
dispatch(method) ==
    LET m == upper(method)
    IN  IF m = M_GET THEN <<"GET">>
        ELSE IF m = M_POST THEN <<"POST">>
        ELSE IF m = M_PUT THEN <<"PUT">>
        ELSE IF m = M_DELETE THEN <<"DELETE">>
        ELSE None

\* make_request with one more attempt after a refused connection
make_request_retry(method, url, kwargs, out) ==
    LET verb == dispatch(method)
    IN  IF verb = None
        THEN [resp |-> None, net |-> <<>>, wire |-> <<>>, fault |-> "none",
              st |-> <<El("error", <<"Unsupported method: ", Spell(method)>>)>>]
        ELSE LET request == [verb |-> verb[1], url |-> url, headers |-> kwargs.headers,
                             json |-> kwargs.json, timeout |-> kwargs.timeout]
             IN  IF out.exc = "none"
                 THEN [resp |-> <<Response(out.status_code, out.text)>>,
                       net |-> <<request>>, wire |-> <<out>>, fault |-> "none", st |-> <<>>]
                 ELSE LET h == except_clauses(out.exc)
                          n == IF out.exc = "ConnectionError" THEN 2 ELSE 1
                      IN  [resp |-> None, net |-> [i \in 1..n |-> request],
                           wire |-> [i \in 1..n |-> out],
                           fault |-> IF h.caught THEN "none" ELSE out.exc, st |-> h.st]

\* app.py:80-103.  out is what the network does with the call, if one is made.
\* The result: the value returned, the elements rendered, the calls made, the
\* answers received, and the exception that escapes ("none" if none).
make_request(method, url, kwargs, out) ==
    LET verb == dispatch(method)
    IN  IF verb = None
        THEN [resp |-> None, net |-> <<>>, wire |-> <<>>, fault |-> "none",
              st |-> <<El("error", <<"Unsupported method: ", Spell(method)>>)>>]
        ELSE LET request == [verb |-> verb[1], url |-> url, headers |-> kwargs.headers,
                             json |-> kwargs.json, timeout |-> kwargs.timeout]
             IN  IF out.exc = "none"
                 THEN [resp |-> <<Response(out.status_code, out.text)>>,
                       net |-> <<request>>, wire |-> <<out>>, fault |-> "none", st |-> <<>>]
                 ELSE LET h == except_clauses(out.exc)
                      IN  [resp |-> None, net |-> <<request>>, wire |-> <<out>>,
                           fault |-> IF h.caught THEN "none" ELSE out.exc, st |-> h.st]

\* kwargs of the GET call sites: headers=get_headers(), timeout=...
get_kwargs(timeout) == [headers |-> get_headers(FALSE), json |-> None, timeout |-> timeout]

\* url_of with the base URL read once, at start-up
url_of_default(path) == "http://localhost:8010" \o path

\* f"{BASE_URL}{path}" of the call sites
url_of(path) == BASE_URL \o path

\* nothing rendered, nothing returned (show_response not called)
NotShown == [st |-> <<>>, data |-> None]

\* the parsed value `data` stands for (None when show_response returned None)
Parsed(d) == IF d = None THEN JNull ELSE json_loads(d[1])

\* a script run: what the pressed button's handler did
RunOf(m, shown, after) ==
    [net |-> m.net, wire |-> m.wire, resp |-> m.resp, data |-> shown.data,
     st |-> m.st \o shown.st \o after.st,
     fault |-> IF m.fault # "none" THEN m.fault ELSE after.fault]

NoMore == [st |-> <<>>, fault |-> "none"]

-----------------------------------------------------------------------------
(* The button handlers of app.py.  Each is the whole handler, as a function *)
(* of the widgets it reads and of the network's answer out.                 *)

\* app.py:132-133
count_users(d) ==
    IF Truthy(d)
    THEN IF HasLen(d)
         THEN [st |-> <<El("info", <<"Found ", ToString(d.len), " user(s)">>)>>, fault |-> "none"]
         ELSE [st |-> <<>>, fault |-> "TypeError"]
    ELSE NoMore

\* app.py:128-133
fetch_all_users(out) ==
    LET m     == make_request(M_GET, url_of("/users"), get_kwargs(10), out)
        shown == IF Bool(m.resp) THEN show_response(m.resp[1], None) ELSE NotShown
    IN  RunOf(m, shown, count_users(Parsed(shown.data)))

\* app.py:141-144, 206-209: a GET whose response is only shown
fetch_and_show(path, timeout, out) ==
    LET m     == make_request(M_GET, url_of(path), get_kwargs(timeout), out)
        shown == IF Bool(m.resp) THEN show_response(m.resp[1], None) ELSE NotShown
    IN  RunOf(m, shown, NoMore)

\* app.py:223-228: the lines of the summary, until one raises
RECURSIVE summary(_, _)
summary(d, bodies) ==
    IF bodies = <<>> THEN NoMore
    ELSE LET name == Head(bodies)
             sub  == DictGet(d, name[1])
         IN  IF ~Truthy(sub) THEN summary(d, Tail(bodies))
             ELSE IF ~HasGet(sub) THEN [st |-> <<>>, fault |-> "AttributeError"]
             ELSE LET rest == summary(d, Tail(bodies))
                  IN  [st |-> <<El("write", <<name[2], DictGetStr(sub, "sign", "N/A"), " ",
                                              DictGetStr(sub, "degree", ""), "deg">>)>> \o rest.st,
                       fault |-> rest.fault]

\* app.py:221-228
big_three_summary(d) ==
    IF ~Truthy(d) THEN NoMore
    ELSE LET head == <<El("markdown", <<"### Astrology Summary">>)>>
         IN  IF ~HasGet(d) THEN [st |-> head, fault |-> "AttributeError"]
             ELSE LET lines == summary(d, << <<"Sun", "**Sun**: ">>, <<"Moon", "**Moon**: ">>,
                                             <<"Asc", "**Ascendant**: ">> >>)
                  IN  [st |-> head \o lines.st, fault |-> lines.fault]

\* app.py:217-228
get_big_three(user_id, out) ==
    LET m     == make_request(M_GET, url_of("/users/" \o ToString(user_id) \o "/big-three"),
                              get_kwargs(30), out)
        shown == IF Bool(m.resp) THEN show_response(m.resp[1], None) ELSE NotShown
    IN  RunOf(m, shown, big_three_summary(Parsed(shown.data)))

\* app.py:236-245, 254-266: the two PDF generators
generate_pdf(path, what, out) ==
    LET m == make_request(M_GET, url_of(path), get_kwargs(120), out)
    IN  IF Bool(m.resp) /\ m.resp[1].status_code = 200
        THEN RunOf(m, [st |-> <<El("success", <<what, " generated successfully!">>),
                                El("info", <<"The PDF has been saved to your Downloads folder.">>)>>,
                       data |-> None], NoMore)
        ELSE IF Bool(m.resp)
        THEN RunOf(m, [st |-> show_response(m.resp[1], None).st, data |-> None], NoMore)
        ELSE RunOf(m, NotShown, NoMore)

\* build_payload without the `if <field>:` tests
build_payload_all(f) ==
    ("first_name" :> f.first_name)
    @@ ("last_name" :> f.last_name)
    @@ ("birthdate" :> IF f.birthdate # None THEN strftime_date(f.birthdate[1]) ELSE "")
    @@ ("birthtime" :> IF f.birthtime # None THEN strftime_time(f.birthtime[1]) ELSE "")
    @@ ("city" :> f.city)
    @@ ("country" :> f.country)
    @@ ("login" :> f.login)
    @@ ("timezone" :> f.timezone)

\* app.py:171-188
build_payload(f) ==
    ("first_name" :> f.first_name)
    @@ (IF f.last_name # "" THEN "last_name" :> f.last_name ELSE EmptyDict)
    @@ (IF f.birthdate # None THEN "birthdate" :> strftime_date(f.birthdate[1]) ELSE EmptyDict)
    @@ (IF f.birthtime # None THEN "birthtime" :> strftime_time(f.birthtime[1]) ELSE EmptyDict)
    @@ (IF f.city # "" THEN "city" :> f.city ELSE EmptyDict)
    @@ (IF f.country # "" THEN "country" :> f.country ELSE EmptyDict)
    @@ (IF f.login # "" THEN "login" :> f.login ELSE EmptyDict)
    @@ (IF f.timezone # "" THEN "timezone" :> f.timezone ELSE EmptyDict)

\* the required-field test left out
first_name_missing_off(f) == FALSE

\* app.py:168: `not first_name`
first_name_missing(f) == f.first_name = ""

\* app.py:167-198
save_user(f, out) ==
    IF first_name_missing(f)
    THEN [net |-> <<>>, wire |-> <<>>, resp |-> None, data |-> None,
          st |-> <<El("error", <<"First name is required!">>)>>, fault |-> "none"]
    ELSE LET m == make_request(M_POST, url_of("/users"),
                               [headers |-> get_headers(TRUE), json |-> <<build_payload(f)>>,
                                timeout |-> 10], out)
             shown == IF Bool(m.resp)
                      THEN show_response(m.resp[1], <<"User saved successfully!">>)
                      ELSE NotShown
         IN  RunOf(m, shown, NoMore)

\* app.py:275-286
check_health(out) ==
    LET m == make_request(M_GET, url_of("/health"), get_kwargs(5), out)
    IN  IF ~Bool(m.resp) THEN RunOf(m, NotShown, NoMore)
        ELSE IF m.resp[1].status_code = 200
        THEN RunOf(m, [st |-> <<El("sidebar.success", <<"Backend is healthy!">>)>>
                              \o (IF json_loads(m.resp[1].text).ok
                                  THEN <<El("sidebar.json", <<m.resp[1].text>>)>>
                                  ELSE <<>>),
                       data |-> None], NoMore)
        ELSE RunOf(m, [st |-> <<El("sidebar.error", <<"Backend health check failed">>)>>,
                       data |-> None], NoMore)

-----------------------------------------------------------------------------
(* Inputs of the model *)

\* app.py:31: the default of the base URL input when API_BASE_URL is unset
DefaultBaseUrl == "http://localhost:8010"

BaseUrls == {DefaultBaseUrl, "https://api.example.org"}
Tokens   == {"", "s3cr3t"}
UserIds  == 1..MaxUserId
\* app.py:253: the default value and max_value of the year input
Years    == {2026, 2100}

\* responses with status_code < 400
OkAnswers ==
    {Answer(200, b) : b \in {B_Users, B_EmptyList, B_User, B_Five, B_JsonNull,
                             B_BigThree, B_SunString, B_Pdf}}
    \cup {Answer(201, B_User), Answer(204, B_Empty)}

\* responses with status_code >= 400
ErrAnswers ==
    {Answer(404, B_NotFound), Answer(422, B_Validation), Answer(500, B_NoDetail),
     Answer(500, B_Internal), Answer(502, B_ErrList)}

Exceptions == {"ConnectionError", "ConnectTimeout", "ReadTimeout", "TooManyRedirects"}

Outcomes == OkAnswers \cup ErrAnswers \cup {Raise(e) : e \in Exceptions}

\* what the network answers to the create/update request
SaveOutcomes == {Answer(200, B_User), Answer(404, B_NotFound), Raise("ConnectionError")}

\* app.py:156-165: the values of the form's widgets
Forms ==
    [first_name : {"", "Mara"},
     last_name  : {"", "Lee"},
     birthdate  : {None, <<[year |-> 1990, month |-> 3, day |-> 7]>>},
     birthtime  : {None, <<[hour |-> 0, minute |-> 0]>>},
     city       : {"", "Gent"},
     country    : {"", "BE"},
     login      : {"", "mara@example.org"},
     timezone   : {"", "Europe/Brussels"}]

NoCall == [op |-> "none"]

-----------------------------------------------------------------------------
(* The application: one action per operator interaction *)

Init ==
    /\ BASE_URL = DefaultBaseUrl
    /\ token_input = ""
    /\ button = "none"
    /\ widgets = [none |-> TRUE]
    /\ net = <<>>
    /\ wire = <<>>
    /\ resp = None
    /\ data = None
    /\ st = <<>>
    /\ fault = "none"
    /\ call = NoCall

\* a script run in which no button is pressed renders no handler output
Idle ==
    /\ button' = "none"
    /\ widgets' = [none |-> TRUE]
    /\ net' = <<>> /\ wire' = <<>> /\ resp' = None /\ data' = None
    /\ st' = <<>> /\ fault' = "none"

\* what a run leaves behind
Effects(label, w, r) ==
    /\ button' = label
    /\ widgets' = w
    /\ net' = r.net /\ wire' = r.wire /\ resp' = r.resp /\ data' = r.data
    /\ st' = r.st /\ fault' = r.fault

\* the script run of a pressed button
Run(label, w, r) ==
    /\ Effects(label, w, r)
    /\ UNCHANGED <<BASE_URL, token_input, call>>

\* app.py:29-33: the operator edits the base URL
EditBaseUrl ==
    \E u \in BaseUrls :
        /\ u # BASE_URL
        /\ BASE_URL' = u
        /\ Idle
        /\ UNCHANGED <<token_input, call>>

\* app.py:34-38: the operator edits the token
EditToken ==
    \E t \in Tokens :
        /\ t # token_input
        /\ token_input' = t
        /\ Idle
        /\ UNCHANGED <<BASE_URL, call>>

\* app.py:126-133
FetchAllUsers ==
    \E out \in Outcomes : Run("Fetch All Users", [none |-> TRUE], fetch_all_users(out))

\* app.py:138-144
FetchUser ==
    \E user_id \in UserIds, out \in Outcomes :
        Run("Fetch User", [user_id |-> user_id],
            fetch_and_show("/users/" \o ToString(user_id), 10, out))

\* app.py:149-198
SaveUser ==
    \E f \in Forms, out \in SaveOutcomes : Run("Save User", f, save_user(f, out))

\* app.py:203-209
GetPlacements ==
    \E user_id \in UserIds, out \in Outcomes :
        Run("Get Placements", [user_id |-> user_id],
            fetch_and_show("/users/" \o ToString(user_id) \o "/placements", 30, out))

\* app.py:214-228
GetBigThree ==
    \E user_id \in UserIds, out \in Outcomes :
        Run("Get Big Three", [user_id |-> user_id], get_big_three(user_id, out))

\* app.py:233-245
GenerateBooklet ==
    \E user_id \in UserIds, out \in Outcomes :
        Run("Generate Booklet", [user_id |-> user_id],
            generate_pdf("/users/" \o ToString(user_id) \o "/booklet", "Booklet", out))

\* app.py:250-266
GenerateCalendar ==
    \E user_id \in UserIds, year \in Years, out \in Outcomes :
        Run("Generate Calendar", [user_id |-> user_id, year |-> year],
            generate_pdf("/users/" \o ToString(user_id) \o "/calendar?year=" \o ToString(year),
                         "Calendar", out))

\* app.py:275-286
CheckHealth ==
    \E out \in Outcomes : Run("Check Backend Health", [none |-> TRUE], check_health(out))

Next ==
    \/ EditBaseUrl
    \/ EditToken
    \/ FetchAllUsers
    \/ FetchUser
    \/ SaveUser
    \/ GetPlacements
    \/ GetBigThree
    \/ GenerateBooklet
    \/ GenerateCalendar
    \/ CheckHealth

Spec == Init /\ [][Next]_vars

-----------------------------------------------------------------------------
(* make_request called directly, with any method string *)

Methods ==
    {M_GET, M_POST, M_PUT, M_DELETE,
     <<"g", "e", "t">>, <<"P", "o", "s", "t">>, <<"p", "u", "t">>,
     <<"d", "e", "l", "e", "t", "e">>,
     <<"P", "A", "T", "C", "H">>, <<"H", "E", "A", "D">>, <<"G", "E", "T", " ">>, <<>>}

InitMakeRequest ==
    /\ BASE_URL \in BaseUrls
    /\ token_input \in Tokens
    /\ button = "none"
    /\ widgets = [none |-> TRUE]
    /\ net = <<>> /\ wire = <<>> /\ resp = None /\ data = None
    /\ st = <<>> /\ fault = "none"
    /\ call \in [op : {"make_request"}, method : Methods,
                 url : {url_of("/users"), url_of("/users/1")},
                 require_auth : BOOLEAN, out : Outcomes]

\* app.py:80-103
CallMakeRequest ==
    /\ call.op = "make_request"
    /\ LET m == make_request(call.method, call.url,
                             [headers |-> get_headers(call.require_auth), json |-> None,
                              timeout |-> 10], call.out)
       IN  Effects("none", [none |-> TRUE], RunOf(m, NotShown, NoMore))
    /\ call' = [call EXCEPT !.op = "returned"]
    /\ UNCHANGED <<BASE_URL, token_input>>

SpecMakeRequest == InitMakeRequest /\ [][CallMakeRequest]_vars

-----------------------------------------------------------------------------
(* show_response called directly, with any response *)

Statuses == {200, 201, 399, 400, 404, 422, 500, 599}

Bodies == {B_NotFound, B_Validation, B_DetailNull, B_NoDetail, B_Internal, B_Empty,
           B_EmptyList, B_EmptyDict, B_ErrList, B_Users, B_User, B_Five, B_Zero,
           B_JsonNull, B_String, B_BigThree, B_SunString, B_Pdf}

InitShowResponse ==
    /\ BASE_URL = DefaultBaseUrl
    /\ token_input = ""
    /\ button = "none"
    /\ widgets = [none |-> TRUE]
    /\ net = <<>> /\ wire = <<>> /\ resp = None /\ data = None
    /\ st = <<>> /\ fault = "none"
    /\ call \in [op : {"show_response"}, status_code : Statuses, text : Bodies,
                 success_message : {None, <<"">>, <<"User saved successfully!">>}]

\* app.py:60-78
CallShowResponse ==
    /\ call.op = "show_response"
    /\ LET r     == Response(call.status_code, call.text)
           shown == show_response(r, call.success_message)
       IN  /\ resp' = <<r>>
           /\ st' = shown.st
           /\ data' = shown.data
    /\ call' = [call EXCEPT !.op = "returned"]
    /\ UNCHANGED <<BASE_URL, token_input, button, widgets, net, wire, fault>>

SpecShowResponse == InitShowResponse /\ [][CallShowResponse]_vars

-----------------------------------------------------------------------------
(* Properties *)

Contains(parts, part) == \E i \in DOMAIN parts : parts[i] = part

ErrorsShown == {i \in DOMAIN st : st[i].kind = "error"}

\* the network answered the run's request with a response
Answered == wire # <<>> /\ wire[1].exc = "none"

\* the run's request failed with exception e
Failed(e) == wire # <<>> /\ wire[1].exc = e

\* section 6 of the specification: the path of each action's request
PathOf(b, w) ==
    CASE b = "Fetch All Users"      -> "/users"
      [] b = "Fetch User"           -> "/users/" \o ToString(w.user_id)
      [] b = "Save User"            -> "/users"
      [] b = "Get Placements"       -> "/users/" \o ToString(w.user_id) \o "/placements"
      [] b = "Get Big Three"        -> "/users/" \o ToString(w.user_id) \o "/big-three"
      [] b = "Generate Booklet"     -> "/users/" \o ToString(w.user_id) \o "/booklet"
      [] b = "Generate Calendar"    -> "/users/" \o ToString(w.user_id) \o "/calendar?year="
                                       \o ToString(w.year)
      [] b = "Check Backend Health" -> "/health"
      [] OTHER                      -> "?"

\* section 6 of the specification: the timeout of each action's request
TimeoutOf(b) ==
    CASE b \in {"Fetch All Users", "Fetch User", "Save User"} -> 10
      [] b \in {"Get Placements", "Get Big Three"}            -> 30
      [] b \in {"Generate Booklet", "Generate Calendar"}      -> 120
      [] OTHER                                                -> 5

OptionalKeys == {"last_name", "birthdate", "birthtime", "city", "country", "login", "timezone"}

\* whether the operator filled field k of form w
Filled(w, k) ==
    CASE k = "birthdate" -> w.birthdate # None
      [] k = "birthtime" -> w.birthtime # None
      [] OTHER           -> w[k] # ""

\* the operator's value of field k, dates as YYYY-MM-DD and times as HH:MM
ValueOf(w, k) ==
    CASE k = "birthdate" ->
            (IF w.birthdate[1] = [year |-> 1990, month |-> 3, day |-> 7] THEN "1990-03-07" ELSE "?")
      [] k = "birthtime" ->
            (IF w.birthtime[1] = [hour |-> 0, minute |-> 0] THEN "00:00" ELSE "?")
      [] OTHER -> w[k]

\* the payload the specification asks of a submitted form
ExpectedPayload(w) ==
    [k \in {"first_name"} \cup {k \in OptionalKeys : Filled(w, k)} |-> ValueOf(w, k)]

\* the request the specification asks of a pressed button
ExpectedRequest(b, w) ==
    [verb    |-> IF b = "Save User" THEN "POST" ELSE "GET",
     url     |-> BASE_URL \o PathOf(b, w),
     headers |-> IF b = "Save User" /\ token_input # ""
                 THEN [k \in {"Accept", "Content-Type", "Authorization"} |->
                          IF k = "Authorization" THEN "Bearer " \o token_input
                          ELSE "application/json"]
                 ELSE [k \in {"Accept", "Content-Type"} |-> "application/json"],
     json    |-> IF b = "Save User" THEN <<ExpectedPayload(w)>> ELSE None,
     timeout |-> TimeoutOf(b)]

\* the run sends a request: a button is pressed and the form, if any, is valid
Sends(b, w) == b # "none" /\ ~(b = "Save User" /\ w.first_name = "")

ConnectionFailedMessage ==
    El("error", <<"Connection failed. Is the backend running at ", BASE_URL, "?">>)

\* what the error message shows after the status code: detail, else the raw body
DetailOrBody(text) ==
    CASE text = B_NotFound   -> "User not found"
      [] text = B_Validation -> "[{'msg': 'field required'}]"
      [] text = B_DetailNull -> "None"
      [] OTHER               -> text

\* C1: every action whose request is answered with status >= 400 renders
\* exactly one error message, which contains the status code and the body's
\* detail field if present, else the raw body.
C1_ErrorResponseReported ==
    (Answered /\ wire[1].status_code >= 400 /\ button # "Check Backend Health") =>
        /\ Cardinality(ErrorsShown) = 1
        /\ \A i \in ErrorsShown :
              /\ Contains(st[i].parts, ToString(wire[1].status_code))
              /\ Contains(st[i].parts, DetailOrBody(wire[1].text))

C2_AfterRefusal ==
    Failed("ConnectionError") =>
        /\ resp = None
        /\ fault = "none"
        /\ Len(net) = 1 /\ Len(wire) = 1
        /\ Len(st) = 1 /\ st[1].kind = "error"

\* C2: a refused connection makes make_request return None after exactly one
\* error message, nothing escapes, the request is not repeated, and the next
\* action of the session sends the request its button and widgets call for.
C2_ConnectionRefused ==
    [][ /\ C2_AfterRefusal'
        /\ (Failed("ConnectionError") /\ Sends(button', widgets')) =>
              (net = <<ExpectedRequest(button, widgets)>>)' ]_vars

C2_Witness ==
    /\ button = "Generate Booklet"
    /\ Failed("ConnectionError")
    /\ resp = None
    /\ st = <<ConnectionFailedMessage>>

\* what a direct call of make_request must have done, given the verbs that
\* count as supported
DispatchedAs(supported, verb) ==
    IF supported
    THEN /\ Len(net) = 1 /\ Len(wire) = 1
         /\ net[1].verb = verb
         /\ net[1].url = call.url
    ELSE /\ net = <<>> /\ wire = <<>>
         /\ resp = None
         /\ st = <<El("error", <<"Unsupported method: ", Spell(call.method)>>)>>

\* C3 as stated: one call with the given verb when the method string is one
\* of GET, POST, PUT, DELETE, and no call for every other method string.
C3_ExactMethodStrings ==
    call.op = "returned" =>
        DispatchedAs(call.method \in {M_GET, M_POST, M_PUT, M_DELETE}, Spell(call.method))

\* C3 (amended): make_request performs exactly one network call, with the
\* upper-cased verb against the given URL, when the method string upper-cased
\* is one of GET, POST, PUT, DELETE, and performs no call and returns None
\* after an 'Unsupported method' error for every other method string.
C3_MethodsUpToCase ==
    call.op = "returned" =>
        DispatchedAs(Spell(upper(call.method)) \in {"GET", "POST", "PUT", "DELETE"},
                     Spell(upper(call.method)))

C3_Witness ==
    /\ call.op = "returned"
    /\ call.method = <<"g", "e", "t">>
    /\ Len(net) = 1
    /\ net[1].verb = "GET"

\* C4: every timeout, while connecting or while reading, is reported with
\* the timeout message.
C4_TimeoutsReportedAsTimeouts ==
    (Failed("ConnectTimeout") \/ Failed("ReadTimeout")) =>
        st = <<El("error", <<"Request timed out">>)>>

\* C5: every request carries Accept and Content-Type application/json; it
\* carries Authorization: Bearer <token> exactly when it is the Save User
\* POST /users and the token is non-empty, and no GET carries it.
C5_AuthorizationHeader ==
    \A i \in DOMAIN net :
        LET h == net[i].headers
        IN  /\ {"Accept", "Content-Type"} \subseteq DOMAIN h
            /\ h["Accept"] = "application/json"
            /\ h["Content-Type"] = "application/json"
            /\ ("Authorization" \in DOMAIN h) <=> (button = "Save User" /\ token_input # "")
            /\ ("Authorization" \in DOMAIN h) =>
                  /\ h["Authorization"] = "Bearer " \o token_input
                  /\ net[i].verb = "POST"
                  /\ net[i].url = BASE_URL \o "/users"
            /\ net[i].verb = "GET" => DOMAIN h = {"Accept", "Content-Type"}

C5_Witness ==
    /\ button = "Save User"
    /\ net # <<>>
    /\ "Authorization" \in DOMAIN net[1].headers
    /\ net[1].headers["Authorization"] = "Bearer s3cr3t"

\* C6: a submission with a non-empty first_name sends a payload whose keys
\* are first_name and exactly the optional fields the operator filled, each
\* with the operator's value.
C6_PayloadIsFilledFields ==
    (button = "Save User" /\ widgets.first_name # "") =>
        /\ Len(net) = 1
        /\ net[1].json = <<ExpectedPayload(widgets)>>

C6_Witness ==
    /\ button = "Save User"
    /\ widgets.birthdate # None /\ widgets.city = "" /\ widgets.last_name = ""
    /\ net # <<>>
    /\ net[1].json # None
    /\ DOMAIN net[1].json[1] = {"first_name", "birthdate", "birthtime"}
    /\ net[1].json[1]["birthdate"] = "1990-03-07"

\* C7: a submission with an empty first_name never calls make_request: no
\* request is sent and only 'First name is required!' is shown.
C7_EmptyFirstNameBlocked ==
    (button = "Save User" /\ widgets.first_name = "") =>
        /\ net = <<>> /\ wire = <<>>
        /\ resp = None /\ data = None /\ fault = "none"
        /\ st = <<El("error", <<"First name is required!">>)>>

C7_Witness ==
    /\ button = "Save User"
    /\ widgets.first_name = ""
    /\ widgets.last_name # "" /\ widgets.login # ""
    /\ token_input # ""
    /\ net = <<>>

\* what show_response shows after the status code of an error response
ShownAfterStatus(text) ==
    CASE text \in {B_NoDetail, B_EmptyDict, B_User, B_BigThree, B_SunString} -> "Unknown error"
      [] OTHER -> DetailOrBody(text)

\* C8: show_response of a response with status >= 400 shows exactly one
\* error message: the status code and the detail field, 'Unknown error' for
\* an object without detail, the raw body for any other body; it returns None.
C8_ErrorRendering ==
    (call.op = "returned" /\ call.status_code >= 400) =>
        /\ st = <<El("error", <<"Error ", ToString(call.status_code), ": ",
                                ShownAfterStatus(call.text)>>)>>
        /\ data = None
        /\ fault = "none"

C8_Witness ==
    /\ call.op = "returned"
    /\ call.status_code = 500
    /\ call.text = B_ErrList
    /\ Len(st) = 1
    /\ Contains(st[1].parts, "500") /\ Contains(st[1].parts, B_ErrList)

\* C9: every request goes to the base URL current when the action is
\* triggered, with the token current at that moment, and the
\* connection-failed message names that base URL.
C9_CurrentConfiguration ==
    [][ Sends(button', widgets') =>
          /\ Len(net') = 1
          /\ net'[1].url = BASE_URL \o PathOf(button', widgets')
          /\ ("Authorization" \in DOMAIN net'[1].headers) <=>
                (button' = "Save User" /\ token_input # "")
          /\ ("Authorization" \in DOMAIN net'[1].headers) =>
                net'[1].headers["Authorization"] = "Bearer " \o token_input
          /\ (wire'[1].exc = "ConnectionError") =>
                st' = <<El("error", <<"Connection failed. Is the backend running at ",
                                      BASE_URL, "?">>)>> ]_vars

C9_Witness ==
    /\ BASE_URL = "https://api.example.org"
    /\ token_input = "s3cr3t"
    /\ button = "Save User"
    /\ Failed("ConnectionError")
    /\ net[1].url = "https://api.example.org/users"
    /\ st = <<ConnectionFailedMessage>>

FoundMessages == {i \in DOMAIN st : st[i].kind = "info" /\ Contains(st[i].parts, "Found ")}

\* C10: View All Users shows 'Found N user(s)' exactly when the response has
\* status < 400 and its body parses to a truthy value, and then N is the
\* length of that value.
C10_FoundCount ==
    button = "Fetch All Users" =>
        LET v == IF Answered THEN json_loads(wire[1].text) ELSE JError
        IN  /\ (FoundMessages # {}) <=>
                  (Answered /\ wire[1].status_code < 400 /\ v.ok /\ Truthy(v))
            /\ \A i \in FoundMessages :
                  st[i].parts = <<"Found ", ToString(v.len), " user(s)">>

=============================================================================
